---- MODULE Spec2Model ----
(***************************************************************************)
(* MCP discovery-and-connection orchestrator (mcp-client): the status      *)
(* registry, discoverMcpTools, connectAndDiscover, discoverToolsAndPrompts, *)
(* connectToMcpServer, createTransport, isEnabled, generateValidName and    *)
(* mcpRequest, together with the prompt registry they populate.            *)
(*                                                                         *)
(* Strings that the code inspects character by character (server names,    *)
(* tool names, includeTools/excludeTools entries) are sequences of         *)
(* one-character strings.  An optional value (undefined in the source) is  *)
(* a set with no element, a present value x is the set {x}.                *)
(*                                                                         *)
(* One action is one run-to-completion segment of the event loop: the code  *)
(* from one resumption up to the next await, with the promise reactions     *)
(* (microtasks) it triggers.                                               *)
(***************************************************************************)
EXTENDS Integers, Sequences, FiniteSets, TLC

\* ------------------------------------------------------------------ bounds

\* number of discoverMcpTools calls made over a run
MaxCalls == 2
\* number of connectAndDiscover invocations the calls of a run launch in all
MaxBranches == 2
\* number of status-change listeners registered at one time
MaxListeners == 1
\* number of concurrent mcpRequest callers
MaxRequests == 1
\* number of listeners registered at one time when the status registry is
\* driven on its own
MaxRegistered == 2

\* ------------------------------------------------------------- enumerations

DISCONNECTED == "disconnected"
CONNECTING == "connecting"
CONNECTED == "connected"
MCPServerStatus == {DISCONNECTED, CONNECTING, CONNECTED}

NOT_STARTED == "not_started"
IN_PROGRESS == "in_progress"
COMPLETED == "completed"
MCPDiscoveryState == {NOT_STARTED, IN_PROGRESS, COMPLETED}

\* ------------------------------------------------------------------ strings

\* the characters the regular expression [a-zA-Z0-9_] accepts
WordChars ==
  {"a","b","c","d","e","f","g","h","i","j","k","l","m",
   "n","o","p","q","r","s","t","u","v","w","x","y","z",
   "A","B","C","D","E","F","G","H","I","J","K","L","M",
   "N","O","P","Q","R","S","T","U","V","W","X","Y","Z",
   "0","1","2","3","4","5","6","7","8","9","_"}

\* String.prototype.startsWith
StartsWith(str, prefix) ==
  /\ Len(prefix) <= Len(str)
  /\ SubSeq(str, 1, Len(prefix)) = prefix

\* Array.prototype.includes / the elements of an array
Elems(arr) == {arr[i] : i \in 1..Len(arr)}

\* the server names of a run: two configured names, the second ending in an
\* underscore, and the reserved name of the ad-hoc server
SrvA == <<"a">>
SrvAU == <<"a", "_">>
McpName == <<"m", "c", "p">>
Names == {SrvA, SrvAU, McpName}

\* raw tool names a server may declare
ToolT == <<"t">>
ToolUT == <<"_", "t">>
ToolDT == <<"-", "t">>
ToolNames == {ToolT, ToolUT, ToolDT}

\* a funcDecl of a tools/list response (ListToolsResponseSchema: name is a string)
FuncDecl(n) == [name |-> n]

\* the tools/list responses a server may give
ToolsResponses ==
  { <<>>,
    <<FuncDecl(ToolT)>>,
    <<FuncDecl(ToolUT), FuncDecl(ToolDT)>> }

\* a prompt of a prompts/list response (McpPromptSchema: template is optional)
PromptP == <<"p">>
PromptQ == <<"q">>
PromptsResponses ==
  { <<>>,
    <<[name |-> PromptP, template |-> {<<"x">>}],
      [name |-> PromptQ, template |-> {}]>>,
    <<[name |-> PromptP, template |-> {}],
      [name |-> PromptQ, template |-> {<<>>}]>> }

\* error messages of a failed client.request
RequestErrors == {"request failed"}

MCP_DEFAULT_TIMEOUT_MSEC == 600000

\* ---------------------------------------------------------- configurations

\* JavaScript truthiness of an optional string
Truthy(opt) == \E v \in opt : v # <<>>

\* a ?? b
OrElse(opt, dflt) == IF opt = {} THEN dflt ELSE CHOOSE v \in opt : TRUE

EmptyConfig ==
  [httpUrl |-> {}, url |-> {}, command |-> {}, args |-> <<>>,
   includeTools |-> {}, excludeTools |-> {}, timeout |-> {}, trust |-> {}]

StdioConfig == [EmptyConfig EXCEPT !.command = {<<"x">>}]
SseConfig ==
  [EmptyConfig EXCEPT !.url = {<<"u">>}, !.timeout = {5}, !.excludeTools = {<<ToolDT>>}]
HttpConfig ==
  [EmptyConfig EXCEPT !.httpUrl = {<<"h">>}, !.url = {<<"u">>}, !.trust = {TRUE},
                      !.includeTools = {<<ToolT, <<"_", "t", "(", "x", ")">> >>}]
InvalidConfig == [EmptyConfig EXCEPT !.trust = {TRUE}]

\* the arguments handed to discoverMcpTools: an mcpServers record and an
\* optional mcpServerCommand (a command line of words, or one holding a shell
\* operator)
NoServers == [n \in {} |-> EmptyConfig]
DiscoveryInputs ==
  { [mcpServers |-> NoServers, mcpServerCommand |-> {}],
    [mcpServers |-> (SrvA :> StdioConfig), mcpServerCommand |-> {}],
    [mcpServers |-> (SrvA :> StdioConfig), mcpServerCommand |-> {<<"x", " ", "|">>}],
    [mcpServers |-> (SrvA :> HttpConfig) @@ (SrvAU :> SseConfig),
     mcpServerCommand |-> {}],
    [mcpServers |-> (SrvA :> InvalidConfig) @@ (SrvAU :> StdioConfig),
     mcpServerCommand |-> {}],
    [mcpServers |-> (McpName :> SseConfig),
     mcpServerCommand |-> {<<"x", " ", "y">>}] }

\* ------------------------------------------------------------ pure functions

\* shell-quote's parse: whitespace-separated words; a control operator is
\* returned as an object, not as a string
ControlOps == {<<"|">>, <<"&">>, <<";">>, <<">">>, <<"<">>}

RECURSIVE SplitWords(_, _, _)
SplitWords(str, i, cur) ==
  IF i > Len(str)
    THEN (IF cur = <<>> THEN <<>> ELSE <<cur>>)
    ELSE IF str[i] = " "
      THEN (IF cur = <<>> THEN <<>> ELSE <<cur>>) \o SplitWords(str, i + 1, <<>>)
      ELSE SplitWords(str, i + 1, Append(cur, str[i]))

parse(cmd) ==
  LET words == SplitWords(cmd, 1, <<>>)
  IN [i \in 1..Len(words) |->
        [isString |-> words[i] \notin ControlOps, text |-> words[i]]]

\* an entry already configured under the reserved name kept
populateMcpServerCommandKeepExisting(mcpServers, mcpServerCommand) ==
  IF Truthy(mcpServerCommand)
    THEN LET cmd == CHOOSE v \in mcpServerCommand : TRUE
             args == parse(cmd)
         IN IF \E i \in 1..Len(args) : ~args[i].isString
              THEN [threw |-> TRUE, mcpServers |-> mcpServers]
              ELSE [threw |-> FALSE,
                    mcpServers |->
                      mcpServers @@
                      (McpName :>
                         [EmptyConfig EXCEPT
                            !.command = IF Len(args) = 0 THEN {} ELSE {args[1].text},
                            !.args = [i \in 1..(Len(args) - 1) |-> args[i + 1].text]])]
    ELSE [threw |-> FALSE, mcpServers |-> mcpServers]

\* populateMcpServerCommand: [threw, mcpServers]
populateMcpServerCommand(mcpServers, mcpServerCommand) ==
  IF Truthy(mcpServerCommand)
    THEN LET cmd == CHOOSE v \in mcpServerCommand : TRUE
             args == parse(cmd)
         IN IF \E i \in 1..Len(args) : ~args[i].isString
              THEN [threw |-> TRUE, mcpServers |-> mcpServers]
              ELSE [threw |-> FALSE,
                    mcpServers |->
                      (McpName :>
                         [EmptyConfig EXCEPT
                            !.command = IF Len(args) = 0 THEN {} ELSE {args[1].text},
                            !.args = [i \in 1..(Len(args) - 1) |-> args[i + 1].text]])
                      @@ mcpServers]
    ELSE [threw |-> FALSE, mcpServers |-> mcpServers]

\* url consulted before httpUrl
createTransportUrlFirst(mcpServerConfig) ==
  IF Truthy(mcpServerConfig.url)
    THEN [threw |-> FALSE, kind |-> "SSEClientTransport"]
    ELSE IF Truthy(mcpServerConfig.httpUrl)
      THEN [threw |-> FALSE, kind |-> "StreamableHTTPClientTransport"]
      ELSE IF Truthy(mcpServerConfig.command)
        THEN [threw |-> FALSE, kind |-> "StdioClientTransport"]
        ELSE [threw |-> TRUE, kind |-> "none"]

\* createTransport: [threw, kind]
createTransport(mcpServerConfig) ==
  IF Truthy(mcpServerConfig.httpUrl)
    THEN [threw |-> FALSE, kind |-> "StreamableHTTPClientTransport"]
    ELSE IF Truthy(mcpServerConfig.url)
      THEN [threw |-> FALSE, kind |-> "SSEClientTransport"]
      ELSE IF Truthy(mcpServerConfig.command)
        THEN [threw |-> FALSE, kind |-> "StdioClientTransport"]
        ELSE [threw |-> TRUE, kind |-> "none"]

\* includeTools consulted before excludeTools
isEnabledIncludeFirst(funcDecl, mcpServerConfig) ==
  /\ funcDecl.name # <<>>
  /\ \/ \E inc \in mcpServerConfig.includeTools :
          \E tool \in Elems(inc) :
            \/ tool = funcDecl.name
            \/ StartsWith(tool, funcDecl.name \o <<"(">>)
     \/ /\ mcpServerConfig.includeTools = {}
        /\ ~\E ex \in mcpServerConfig.excludeTools : funcDecl.name \in Elems(ex)

\* isEnabled
isEnabled(funcDecl, mcpServerConfig) ==
  IF funcDecl.name = <<>>
    THEN FALSE
    ELSE IF \E ex \in mcpServerConfig.excludeTools : funcDecl.name \in Elems(ex)
      THEN FALSE
      ELSE \/ mcpServerConfig.includeTools = {}
           \/ \E inc \in mcpServerConfig.includeTools :
                \E tool \in Elems(inc) :
                  \/ tool = funcDecl.name
                  \/ StartsWith(tool, funcDecl.name \o <<"(">>)

\* String.prototype.replace(/[^a-zA-Z0-9_]/g, '_')
Sanitize(str) ==
  [i \in 1..Len(str) |-> IF str[i] \in WordChars THEN str[i] ELSE "_"]

\* the server-name prefix left out
generateValidNameNoPrefix(funcDecl, mcpServerName) ==
  Sanitize(funcDecl.name)

\* generateValidName
generateValidName(funcDecl, mcpServerName) ==
  mcpServerName \o <<"_", "_">> \o Sanitize(funcDecl.name)

\* the loop of discoverToolsAndPrompts over toolsResponse.tools
RECURSIVE DiscoverTools(_, _, _)
DiscoverTools(decls, mcpServerName, mcpServerConfig) ==
  IF decls = <<>>
    THEN <<>>
    ELSE LET funcDecl == Head(decls)
             rest == DiscoverTools(Tail(decls), mcpServerName, mcpServerConfig)
         IN IF ~isEnabled(funcDecl, mcpServerConfig)
              THEN rest
              ELSE << [serverName |-> mcpServerName,
                       name |-> generateValidName(funcDecl, mcpServerName),
                       decl |-> funcDecl.name,
                       timeout |-> OrElse(mcpServerConfig.timeout,
                                          MCP_DEFAULT_TIMEOUT_MSEC),
                       trust |-> mcpServerConfig.trust] >> \o rest

\* every prompt of the response kept
DiscoverPromptsUnfiltered(prompts) == prompts

\* the loop of discoverToolsAndPrompts over promptsResponse.prompts
RECURSIVE DiscoverPrompts(_)
DiscoverPrompts(prompts) ==
  IF prompts = <<>>
    THEN <<>>
    ELSE IF Truthy(Head(prompts).template)
      THEN <<Head(prompts)>> \o DiscoverPrompts(Tail(prompts))
      ELSE DiscoverPrompts(Tail(prompts))

\* -------------------------------------------------------------------- state

Calls == 1..MaxCalls
\* one connectAndDiscover invocation: the call that launched it and its server
BranchIds == Calls \X Names
Requests == 1..MaxRequests

\* behaviours of a registered StatusChangeListener callback
ListenerKinds == {"returns", "throws"}

VARIABLES
  mcpDiscoveryState,          \* let mcpDiscoveryState
  mcpServerStatusesInternal,  \* Map: server name -> {} (absent) or {status}
  mcpClients,                 \* Map: server name -> {} (absent) or {client}
  statusChangeListeners,      \* array of listeners
  clients,                    \* the Client object each invocation creates
  calls,                      \* the discoverMcpTools invocations
  branches,                   \* the connectAndDiscover invocations
  toolRegistry,               \* tools handed to toolRegistry.registerTool
  promptRegistry,             \* PromptRegistry.prompts: key -> prompt
  requests,                   \* the mcpRequest invocations
  probe,                      \* a direct call of an exported function: its
                              \* arguments and what it returned
  activeFileContext           \* ideContext: {} (none) or {active file}

vars ==
  <<mcpDiscoveryState, mcpServerStatusesInternal, mcpClients,
    statusChangeListeners, clients, calls, branches, toolRegistry,
    promptRegistry, requests, probe, activeFileContext>>

NoBranch ==
  [pc |-> "none", config |-> EmptyConfig, connected |-> FALSE,
   listed |-> FALSE, tools |-> <<>>, prompts |-> <<>>, published |-> "none",
   toolsFailed |-> FALSE, promptsFailed |-> FALSE, path |-> "none"]
NoClient == [state |-> "none", transport |-> "none", onerror |-> FALSE]
NoCall ==
  [pc |-> "idle", servers |-> {}, parseThrew |-> FALSE,
   mcpServers |-> NoServers, mcpServerCommand |-> {}]
NoRequest ==
  [pc |-> "idle", serverName |-> <<>>, client |-> {}, issued |-> FALSE,
   closedAtIssue |-> FALSE, outcome |-> {}, result |-> [type |-> "none", error |-> <<>>]]

\* no exported function has been called directly
NoProbe ==
  [funcDecl |-> FuncDecl(<<>>), mcpServerConfig |-> EmptyConfig,
   enabled |-> {}, transport |-> {}, notified |-> {}]

\* the module's state once it is loaded
Loaded ==
  /\ mcpDiscoveryState = NOT_STARTED
  /\ mcpServerStatusesInternal = [n \in Names |-> {}]
  /\ mcpClients = [n \in Names |-> {}]
  /\ statusChangeListeners = <<>>
  /\ clients = [b \in BranchIds |-> NoClient]
  /\ calls = [c \in Calls |-> NoCall]
  /\ branches = [b \in BranchIds |-> NoBranch]
  /\ toolRegistry = {}
  /\ promptRegistry = <<>>
  /\ requests = [r \in Requests |-> NoRequest]
  /\ activeFileContext = {}

Init == Loaded /\ probe = NoProbe

\* ---------------------------------------------------------- status registry

\* getMCPServerStatus
getMCPServerStatus(serverName) ==
  OrElse(mcpServerStatusesInternal[serverName], DISCONNECTED)

\* a status once recorded for a server kept
SetStatusOnce(statuses, serverName, status) ==
  IF statuses[serverName] = {}
    THEN [statuses EXCEPT ![serverName] = {status}]
    ELSE statuses

\* a Connected status never overwritten
SetStatusKeepConnected(statuses, serverName, status) ==
  IF statuses[serverName] = {CONNECTED}
    THEN statuses
    ELSE [statuses EXCEPT ![serverName] = {status}]

\* updateMCPServerStatus, the map write: it precedes the notifications
SetStatus(statuses, serverName, status) ==
  [statuses EXCEPT ![serverName] = {status}]

\* updateMCPServerStatus, the notification loop: a listener that throws ends
\* the loop and the exception leaves updateMCPServerStatus
NotifyThrows(listeners) ==
  \E i \in 1..Len(listeners) : listeners[i] = "throws"

\* addMCPStatusChangeListener
AddMCPStatusChangeListener(listener) ==
  /\ Len(statusChangeListeners) < MaxListeners
  /\ statusChangeListeners' = Append(statusChangeListeners, listener)
  /\ UNCHANGED <<mcpDiscoveryState, mcpServerStatusesInternal, mcpClients,
                 clients, calls, branches, toolRegistry, promptRegistry, requests, probe,
                    activeFileContext>>

\* Array.prototype.indexOf, 1-based; 0 when absent
IndexOf(arr, x) ==
  IF x \in Elems(arr)
    THEN CHOOSE i \in 1..Len(arr) :
           arr[i] = x /\ \A j \in 1..(i - 1) : arr[j] # x
    ELSE 0

\* removeMCPStatusChangeListener
RemoveMCPStatusChangeListener(listener) ==
  LET index == IndexOf(statusChangeListeners, listener)
  IN /\ index # 0
     /\ statusChangeListeners' =
          SubSeq(statusChangeListeners, 1, index - 1)
            \o SubSeq(statusChangeListeners, index + 1, Len(statusChangeListeners))
     /\ UNCHANGED <<mcpDiscoveryState, mcpServerStatusesInternal, mcpClients,
                    clients, calls, branches, toolRegistry, promptRegistry, requests, probe,
                    activeFileContext>>

\* ------------------------------------------------------------ orchestrator

\* the assignment after the await instead of in a finally block
DiscoveryStateOnExitNoFinally(threw, current) ==
  IF threw THEN current ELSE COMPLETED

\* a failed pass rolled back
DiscoveryStateOnExitRollback(threw, current) ==
  IF threw THEN NOT_STARTED ELSE COMPLETED

\* the state a discoverMcpTools call leaves on exit: the assignment is in a
\* finally block, so it runs whether or not the try block threw
DiscoveryStateOnExit(threw, current) == COMPLETED

\* the connectAndDiscover invocations launched so far
Launched == {b \in BranchIds : branches[b].pc # "none"}

\* the servers a call launched a branch for
BranchesOf(c) == {c} \X calls[c].servers

\* await Promise.all(discoveryPromises) and the finally block, run as the
\* reactions to a branch settling: the first rejection makes the call raise,
\* the last fulfilment makes it return
AwaitAll(c, rejected) ==
  IF calls[c].pc # "awaiting"
    THEN UNCHANGED <<calls, mcpDiscoveryState>>
    ELSE IF rejected
      THEN /\ calls' = [calls EXCEPT ![c].pc = "raised"]
           /\ mcpDiscoveryState' = DiscoveryStateOnExit(TRUE, mcpDiscoveryState)
      ELSE IF \A b \in BranchesOf(c) : branches'[b].pc = "fulfilled"
        THEN /\ calls' = [calls EXCEPT ![c].pc = "returned"]
             /\ mcpDiscoveryState' = DiscoveryStateOnExit(FALSE, mcpDiscoveryState)
        ELSE UNCHANGED <<calls, mcpDiscoveryState>>

\* discoverMcpTools up to its await: the state write, populateMcpServerCommand
\* and the synchronous head of every connectAndDiscover (publishing CONNECTING
\* and starting connectToMcpServer); then Promise.all over the branches
DiscoverMcpTools(c, mcpServers, mcpServerCommand) ==
  LET populated == populateMcpServerCommand(mcpServers, mcpServerCommand)
      working == populated.mcpServers
      servers == DOMAIN working
      throws == NotifyThrows(statusChangeListeners)
  IN /\ calls[c].pc = "idle"
     /\ \A d \in Calls : d < c => calls[d].pc # "idle"
     /\ populated.threw
          \/ Cardinality(Launched) + Cardinality(servers) <= MaxBranches
     /\ IF populated.threw
          THEN /\ calls' = [calls EXCEPT ![c] =
                              [pc |-> "raised", servers |-> {}, parseThrew |-> TRUE,
                               mcpServers |-> mcpServers,
                               mcpServerCommand |-> mcpServerCommand]]
               /\ mcpDiscoveryState' = DiscoveryStateOnExit(TRUE, IN_PROGRESS)
               /\ UNCHANGED <<mcpServerStatusesInternal, clients, branches>>
          ELSE /\ mcpServerStatusesInternal' =
                    [n \in Names |->
                       IF n \in servers THEN {CONNECTING}
                                        ELSE mcpServerStatusesInternal[n]]
               /\ branches' =
                    [b \in BranchIds |->
                       IF b[1] = c /\ b[2] \in servers
                         THEN [NoBranch EXCEPT
                                 !.pc = IF throws THEN "rejected" ELSE "connecting",
                                 !.config = working[b[2]],
                                 !.published = CONNECTING]
                         ELSE branches[b]]
               /\ clients' =
                    [b \in BranchIds |->
                       IF b[1] = c /\ b[2] \in servers /\ ~throws
                         THEN [NoClient EXCEPT !.state = "connecting"]
                         ELSE clients[b]]
               /\ calls' = [calls EXCEPT ![c] =
                              [pc |-> IF servers = {} THEN "returned"
                                      ELSE IF throws THEN "raised" ELSE "awaiting",
                               servers |-> servers, parseThrew |-> FALSE,
                               mcpServers |-> mcpServers,
                               mcpServerCommand |-> mcpServerCommand]]
               /\ mcpDiscoveryState' =
                    IF servers = {} \/ throws
                      THEN DiscoveryStateOnExit(servers # {}, IN_PROGRESS)
                      ELSE IN_PROGRESS
     /\ UNCHANGED <<mcpClients, statusChangeListeners, toolRegistry,
                    promptRegistry, requests, probe,
                    activeFileContext>>

\* mcpClient.close() / transport.close()
LeftOpen(client) == client

ClosedClient(client) == [client EXCEPT !.state = "closed"]

\* the prompts asked for before the tools
ListingPhasesPromptsFirst == <<"promptsList", "toolsList">>

\* discoverToolsAndPrompts awaits its two requests in turn: tools/list, then
\* prompts/list
ListingPhases == <<"toolsList", "promptsList">>

\* connectAndDiscover resumed by connectToMcpServer: the client is stored and
\* CONNECTED published, the error handler installed and tools/list issued; or
\* the catch block of a failed connect
ConnectSettles(c, s, connected) ==
  LET b == <<c, s>>
      transport == createTransport(branches[b].config)
      throws == NotifyThrows(statusChangeListeners)
  IN /\ branches[b].pc = "connecting"
     /\ connected => ~transport.threw
     /\ IF connected
          THEN /\ mcpClients' = [mcpClients EXCEPT ![s] = {b}]
               /\ IF throws
                    THEN \* line 222 throws; catch: close, publish, which throws
                         /\ clients' = [clients EXCEPT ![b] =
                                          ClosedClient(
                                            [state |-> "open",
                                             transport |-> transport.kind,
                                             onerror |-> FALSE])]
                         /\ mcpServerStatusesInternal' =
                              SetStatus(mcpServerStatusesInternal, s, DISCONNECTED)
                         /\ branches' = [branches EXCEPT ![b].pc = "rejected",
                                                         ![b].connected = TRUE,
                                                         ![b].published = DISCONNECTED,
                                                         ![b].path = "catchOuter"]
                    ELSE /\ clients' = [clients EXCEPT ![b] =
                                          [state |-> "open",
                                           transport |-> transport.kind,
                                           onerror |-> TRUE]]
                         /\ mcpServerStatusesInternal' =
                              SetStatus(mcpServerStatusesInternal, s, CONNECTED)
                         /\ branches' = [branches EXCEPT ![b].pc = ListingPhases[1],
                                                         ![b].connected = TRUE,
                                                         ![b].published = CONNECTED]
          ELSE /\ UNCHANGED mcpClients
               /\ clients' = [clients EXCEPT ![b] =
                                IF transport.threw
                                  THEN [state |-> "unconnected",
                                        transport |-> transport.kind,
                                        onerror |-> FALSE]
                                  ELSE ClosedClient(
                                         [state |-> "connecting",
                                          transport |-> transport.kind,
                                          onerror |-> FALSE])]
               /\ mcpServerStatusesInternal' =
                    SetStatus(mcpServerStatusesInternal, s, DISCONNECTED)
               /\ branches' = [branches EXCEPT
                                 ![b].pc = IF throws THEN "rejected" ELSE "fulfilled",
                                 ![b].published = DISCONNECTED,
                                 ![b].path = "catchOuter"]
     /\ AwaitAll(c, branches'[b].pc = "rejected")
     /\ UNCHANGED <<statusChangeListeners, toolRegistry, promptRegistry, requests, probe,
                    activeFileContext>>

\* discoverToolsAndPrompts resumed by the tools/list request: the response is
\* filtered and renamed, or the rejection swallowed; prompts/list is issued
ToolsListSettles(c, s, response) ==
  LET b == <<c, s>>
  IN /\ branches[b].pc = "toolsList"
     /\ branches' = [branches EXCEPT
                       ![b].pc = ListingPhases[2],
                       ![b].toolsFailed = (response = {}),
                       ![b].tools =
                         IF response = {}
                           THEN <<>>
                           ELSE DiscoverTools(CHOOSE r \in response : TRUE,
                                              s, branches[b].config)]
     /\ UNCHANGED <<mcpDiscoveryState, mcpServerStatusesInternal, mcpClients,
                    statusChangeListeners, clients, calls, toolRegistry,
                    promptRegistry, requests, probe,
                    activeFileContext>>

\* ToolRegistry.registerTool: the registry keeps what it is handed
registerTools(registry, tools) == registry \cup Elems(tools)

\* prompts keyed by their name alone
getPromptKeyNameOnly(serverName, promptName) == promptName

\* PromptRegistry.getPromptKey
getPromptKey(serverName, promptName) == serverName \o <<"/">> \o promptName

\* PromptRegistry.registerPrompt, for every discovered prompt in turn
RECURSIVE registerPrompts(_, _, _)
registerPrompts(registry, prompts, mcpServerName) ==
  IF prompts = <<>>
    THEN registry
    ELSE LET prompt == [name |-> Head(prompts).name,
                        template |-> Head(prompts).template,
                        serverName |-> mcpServerName]
             key == getPromptKey(prompt.serverName, prompt.name)
         IN registerPrompts((key :> prompt) @@ registry, Tail(prompts),
                            mcpServerName)

\* an empty result returned to the caller
discoverNeverThrows(discoveredTools, discoveredPrompts) == FALSE

\* an empty tool list alone taken for a failure
discoverThrowsWithoutTools(discoveredTools, discoveredPrompts) ==
  Len(discoveredTools) = 0

\* the end of discoverToolsAndPrompts: it throws when nothing was discovered
discoverThrows(discoveredTools, discoveredPrompts) ==
  Len(discoveredTools) = 0 /\ Len(discoveredPrompts) = 0

\* connectAndDiscover resumed by the prompts/list request: discovery ends, its
\* results are registered, or the connection is closed and DISCONNECTED
\* published
PromptsListSettles(c, s, response) ==
  LET b == <<c, s>>
      tools == branches[b].tools
      prompts == IF response = {}
                   THEN <<>>
                   ELSE DiscoverPrompts(CHOOSE r \in response : TRUE)
      throws == NotifyThrows(statusChangeListeners)
      empty == Len(tools) = 0 /\ Len(prompts) = 0
  IN /\ branches[b].pc = "promptsList"
     /\ IF discoverThrows(tools, prompts)
          THEN \* inner catch: close, publish; a throwing listener leads to the
               \* outer catch: close, publish again, which throws again
               /\ clients' = [clients EXCEPT ![b] = ClosedClient(clients[b])]
               /\ mcpServerStatusesInternal' =
                    SetStatus(mcpServerStatusesInternal, s, DISCONNECTED)
               /\ branches' = [branches EXCEPT
                                 ![b].pc = IF throws THEN "rejected" ELSE "fulfilled",
                                 ![b].listed = TRUE,
                                 ![b].prompts = prompts,
                                 ![b].promptsFailed = (response = {}),
                                 ![b].published = DISCONNECTED,
                                 ![b].path = "catchInner"]
               /\ UNCHANGED <<toolRegistry, promptRegistry>>
          ELSE /\ toolRegistry' = registerTools(toolRegistry, tools)
               /\ promptRegistry' = registerPrompts(promptRegistry, prompts, s)
               /\ IF empty
                    THEN /\ clients' = [clients EXCEPT ![b] = ClosedClient(clients[b])]
                         /\ mcpServerStatusesInternal' =
                              SetStatus(mcpServerStatusesInternal, s, DISCONNECTED)
                         /\ branches' = [branches EXCEPT
                                           ![b].pc = IF throws THEN "rejected"
                                                               ELSE "fulfilled",
                                           ![b].listed = TRUE,
                                           ![b].prompts = prompts,
                                           ![b].promptsFailed = (response = {}),
                                           ![b].published = DISCONNECTED,
                                           ![b].path = "emptiness"]
                    ELSE /\ branches' = [branches EXCEPT
                                           ![b].pc = "fulfilled",
                                           ![b].listed = TRUE,
                                           ![b].prompts = prompts,
                                           ![b].promptsFailed = (response = {}),
                                           ![b].path = "kept"]
                         /\ UNCHANGED <<clients, mcpServerStatusesInternal>>
     /\ AwaitAll(c, branches'[b].pc = "rejected")
     /\ UNCHANGED <<mcpClients, statusChangeListeners, requests, probe,
                    activeFileContext>>

\* the server whose active-file notifications feed ideContext
IDE_SERVER_NAME == SrvAU

\* an error handler that also closes the connection
TransportErrorCloses(c, s) ==
  LET b == <<c, s>>
  IN /\ clients[b].onerror
     /\ clients[b].state = "open"
     /\ mcpServerStatusesInternal' =
          SetStatus(mcpServerStatusesInternal, s, DISCONNECTED)
     /\ clients' = [clients EXCEPT ![b] = ClosedClient(clients[b])]
     /\ activeFileContext' = IF s = IDE_SERVER_NAME THEN {} ELSE activeFileContext
     /\ UNCHANGED <<mcpDiscoveryState, mcpClients, statusChangeListeners,
                    calls, branches, toolRegistry, promptRegistry, requests, probe>>

\* mcpClient.onerror: a transport error on a connected client.  The status
\* is written first, so a listener that throws ends the handler before the
\* active-file context is cleared.
TransportError(c, s) ==
  LET b == <<c, s>>
      throws == NotifyThrows(statusChangeListeners)
      clears == s = IDE_SERVER_NAME /\ ~throws
  IN /\ clients[b].onerror
     /\ clients[b].state = "open"
     /\ \/ mcpServerStatusesInternal[s] # {DISCONNECTED}
        \/ clears /\ activeFileContext # {}
     /\ mcpServerStatusesInternal' =
          SetStatus(mcpServerStatusesInternal, s, DISCONNECTED)
     /\ activeFileContext' = IF clears THEN {} ELSE activeFileContext
     /\ UNCHANGED <<mcpDiscoveryState, mcpClients, statusChangeListeners, clients,
                    calls, branches, toolRegistry, promptRegistry, requests, probe>>

\* the notification handler installed for the IDE server: the server reports
\* the file that is active in the editor
ActiveFileNotification(c, s) ==
  LET b == <<c, s>>
  IN /\ s = IDE_SERVER_NAME
     /\ clients[b].onerror
     /\ clients[b].state = "open"
     /\ activeFileContext = {}
     /\ activeFileContext' = {"file"}
     /\ UNCHANGED <<mcpDiscoveryState, mcpServerStatusesInternal, mcpClients,
                    statusChangeListeners, clients, calls, branches,
                    toolRegistry, promptRegistry, requests, probe>>

\* ------------------------------------------------------- request dispatcher

\* what client.request may settle with: a closed client rejects every request
RequestOutcomes(client) ==
  {[ok |-> FALSE, message |-> m] : m \in RequestErrors}
    \cup (IF clients[client].state = "open"
            THEN {[ok |-> TRUE, message |-> ""]}
            ELSE {})

NotFound(serverName) ==
  [type |-> "error", error |-> <<"MCP server not found: ", serverName>>]

\* a rejection reported as a success
mcpRequestResultNoCatch(outcome) == [type |-> "success", error |-> <<>>]

\* the value mcpRequest returns for a settled client.request
mcpRequestResult(outcome) ==
  IF outcome.ok
    THEN [type |-> "success", error |-> <<>>]
    ELSE [type |-> "error", error |-> <<outcome.message>>]

\* mcpRequest up to its await: the lookup in mcpClients, then either the
\* 'not found' result or client.request
McpRequestCall(r, serverName) ==
  LET client == mcpClients[serverName]
  IN /\ requests[r].pc \in {"idle", "returned"}
     /\ requests' = [requests EXCEPT ![r] =
          IF client = {}
            THEN [NoRequest EXCEPT !.pc = "returned",
                                   !.serverName = serverName,
                                   !.result = NotFound(serverName)]
            ELSE [NoRequest EXCEPT
                    !.pc = "awaiting",
                    !.serverName = serverName,
                    !.client = client,
                    !.issued = TRUE,
                    !.closedAtIssue =
                      \E b \in client : clients[b].state = "closed"]]
     /\ UNCHANGED <<mcpDiscoveryState, mcpServerStatusesInternal, mcpClients,
                    statusChangeListeners, clients, calls, branches,
                    toolRegistry, promptRegistry, probe,
                    activeFileContext>>

\* mcpRequest resumed by client.request
McpRequestSettles(r, outcome) ==
  /\ requests[r].pc = "awaiting"
  /\ \E b \in requests[r].client : outcome \in RequestOutcomes(b)
  /\ requests' = [requests EXCEPT ![r].pc = "returned",
                                  ![r].outcome = {outcome},
                                  ![r].result = mcpRequestResult(outcome)]
  /\ UNCHANGED <<mcpDiscoveryState, mcpServerStatusesInternal, mcpClients,
                 statusChangeListeners, clients, calls, branches,
                 toolRegistry, promptRegistry, probe,
                    activeFileContext>>

\* ----------------------------------------- the status registry on its own

\* listeners of a run of the registry: also one that deregisters itself when
\* it is called
RegistryListeners == ListenerKinds \cup {"removesSelf"}

\* Array.prototype.splice(index, 1)
Splice(arr, index) ==
  SubSeq(arr, 1, index - 1) \o SubSeq(arr, index + 1, Len(arr))

\* the loop of updateMCPServerStatus: for...of reads the live array by index,
\* so a removal made by a listener shifts the elements that follow it.
\* [listeners after the loop, listeners invoked in order, threw]
RECURSIVE NotifyListeners(_, _, _)
NotifyListeners(listeners, i, invoked) ==
  IF i > Len(listeners)
    THEN [listeners |-> listeners, invoked |-> invoked, threw |-> FALSE]
    ELSE LET listener == listeners[i]
         IN IF listener = "throws"
              THEN [listeners |-> listeners,
                    invoked |-> Append(invoked, listener), threw |-> TRUE]
              ELSE IF listener = "removesSelf"
                THEN NotifyListeners(Splice(listeners, IndexOf(listeners, listener)),
                                     i + 1, Append(invoked, listener))
                ELSE NotifyListeners(listeners, i + 1, Append(invoked, listener))

\* addMCPStatusChangeListener
RegisterListener(listener) ==
  /\ Len(statusChangeListeners) < MaxRegistered
  /\ statusChangeListeners' = Append(statusChangeListeners, listener)
  /\ UNCHANGED <<mcpDiscoveryState, mcpServerStatusesInternal, mcpClients,
                 clients, calls, branches, toolRegistry, promptRegistry, requests,
                 probe,
                    activeFileContext>>

\* updateMCPServerStatus(serverName, status)
UpdateMCPServerStatus(serverName, status) ==
  LET loop == NotifyListeners(statusChangeListeners, 1, <<>>)
  IN /\ mcpServerStatusesInternal' =
          SetStatus(mcpServerStatusesInternal, serverName, status)
     /\ statusChangeListeners' = loop.listeners
     /\ probe' = [probe EXCEPT
                    !.notified = {[serverName |-> serverName, status |-> status,
                                   registered |-> statusChangeListeners,
                                   invoked |-> loop.invoked,
                                   threw |-> loop.threw]}]
     /\ UNCHANGED <<mcpDiscoveryState, mcpClients, clients, calls, branches,
                    toolRegistry, promptRegistry, requests,
                    activeFileContext>>

NextRegistry ==
  \/ \E l \in RegistryListeners : RegisterListener(l)
  \/ \E l \in RegistryListeners : RemoveMCPStatusChangeListener(l)
  \/ \E s \in {SrvA, SrvAU}, status \in MCPServerStatus :
       UpdateMCPServerStatus(s, status)

\* any sequence of addMCPStatusChangeListener, removeMCPStatusChangeListener
\* and updateMCPServerStatus calls
RegistrySpec == Init /\ [][NextRegistry]_vars

\* -------------------------------------------- the exported pure functions

\* optional strings of a configuration: unset, empty, set
OptionalStrings == {{}, {<<>>}, {<<"v">>}}

\* tool names and filter entries: the name t, a longer name that begins with
\* it, and the parametrized form t(x)
NameT == <<"t">>
NameTX == <<"t", "x">>
NameTParen == <<"t", "(", "x", ")">>
FilterLists ==
  { {}, {<<>>}, {<<NameT>>}, {<<NameTX>>}, {<<NameTParen>>},
    {<<NameTX, NameTParen>>} }

\* the arguments of a direct call: a function declaration and a configuration
ProbeInputs ==
  { [funcDecl |-> FuncDecl(n),
     mcpServerConfig |->
       [EmptyConfig EXCEPT !.httpUrl = h, !.url = u, !.command = cmd,
                           !.includeTools = inc, !.excludeTools = ex],
     enabled |-> {}, transport |-> {}, notified |-> {}] :
      n \in {<<>>, NameT, NameTX},
      h \in OptionalStrings, u \in OptionalStrings, cmd \in OptionalStrings,
      inc \in FilterLists, ex \in FilterLists }

InitProbe == Loaded /\ probe \in ProbeInputs

\* isEnabled(funcDecl, mcpServerName, mcpServerConfig) called directly
IsEnabledCall ==
  /\ probe' = [probe EXCEPT
                 !.enabled = {isEnabled(probe.funcDecl, probe.mcpServerConfig)}]
  /\ UNCHANGED <<mcpDiscoveryState, mcpServerStatusesInternal, mcpClients,
                 statusChangeListeners, clients, calls, branches, toolRegistry,
                 promptRegistry, requests,
                    activeFileContext>>

\* createTransport(mcpServerName, mcpServerConfig, debugMode) called directly
CreateTransportCall ==
  /\ probe' = [probe EXCEPT
                 !.transport = {createTransport(probe.mcpServerConfig)}]
  /\ UNCHANGED <<mcpDiscoveryState, mcpServerStatusesInternal, mcpClients,
                 statusChangeListeners, clients, calls, branches, toolRegistry,
                 promptRegistry, requests,
                    activeFileContext>>

NextProbe == IsEnabledCall \/ CreateTransportCall

\* the functions exported for testing, called on every argument of ProbeInputs
ProbeSpec == InitProbe /\ [][NextProbe]_vars

\* ------------------------------------------------------------ specification

AllOutcomes ==
  {[ok |-> FALSE, message |-> m] : m \in RequestErrors}
    \cup {[ok |-> TRUE, message |-> ""]}

\* the status registry and the orchestrator
NextDiscovery ==
  \/ \E l \in ListenerKinds : AddMCPStatusChangeListener(l)
  \/ \E l \in ListenerKinds : RemoveMCPStatusChangeListener(l)
  \/ \E c \in Calls, in \in DiscoveryInputs :
       DiscoverMcpTools(c, in.mcpServers, in.mcpServerCommand)
  \/ \E c \in Calls, s \in Names, ok \in BOOLEAN : ConnectSettles(c, s, ok)
  \/ \E c \in Calls, s \in Names :
       \E resp \in {{}} \cup {{r} : r \in ToolsResponses} :
         ToolsListSettles(c, s, resp)
  \/ \E c \in Calls, s \in Names :
       \E resp \in {{}} \cup {{r} : r \in PromptsResponses} :
         PromptsListSettles(c, s, resp)
  \/ \E c \in Calls, s \in Names : TransportError(c, s)

\* the request dispatcher
NextDispatch ==
  \/ \E r \in Requests, s \in Names : McpRequestCall(r, s)
  \/ \E r \in Requests, o \in AllOutcomes : McpRequestSettles(r, o)

Next == NextDiscovery \/ NextDispatch

Spec == Init /\ [][Next]_vars

\* every connect attempt and every listing request eventually resolves or
\* rejects, and the event loop then resumes the branch awaiting it
Fairness ==
  \A c \in Calls, s \in Names :
    /\ WF_vars(\E ok \in BOOLEAN : ConnectSettles(c, s, ok))
    /\ WF_vars(\E resp \in {{}} \cup {{r} : r \in ToolsResponses} :
                 ToolsListSettles(c, s, resp))
    /\ WF_vars(\E resp \in {{}} \cup {{r} : r \in PromptsResponses} :
                 PromptsListSettles(c, s, resp))

\* the status registry and the orchestrator alone: mcpRequest writes none of
\* the variables they read
DiscoverySpec == Init /\ [][NextDiscovery]_vars

\* the orchestrator under fair scheduling.  mcpRequest writes none of the
\* variables the orchestrator reads, so its steps are left out here.
FairSpec == Init /\ [][NextDiscovery]_vars /\ Fairness

\* the orchestrator together with the IDE server's notifications
NextIde ==
  \/ NextDiscovery
  \/ \E c \in Calls, s \in Names : ActiveFileNotification(c, s)

IdeSpec == Init /\ [][NextIde]_vars

\* ------------------------------------------------------------------ claims

Ended == {"returned", "raised"}
Settled == {"fulfilled", "rejected"}

\* call c ends in this step
Ends(c) == calls[c].pc \notin Ended /\ calls'[c].pc \in Ended

\* the prompt is in the prompt registry under its server's key
PromptRegistered(registry, prompt, serverName) ==
  LET key == getPromptKey(serverName, prompt.name)
  IN /\ key \in DOMAIN registry
     /\ registry[key].name = prompt.name
     /\ registry[key].serverName = serverName

\* C1: when a discoverMcpTools call ends, the discovery state is Completed and
\* every server of the call that connected and returned an enabled tool or a
\* templated prompt has those tools and prompts in the registries.
C1_CallEndsWithCapabilitiesRegistered ==
  [][\A c \in Calls :
       Ends(c) =>
         /\ mcpDiscoveryState' = COMPLETED
         /\ \A s \in calls'[c].servers :
              LET branch == branches'[<<c, s>>]
              IN branch.connected =>
                   /\ Elems(branch.tools) \subseteq toolRegistry'
                   /\ \A i \in 1..Len(branch.prompts) :
                        PromptRegistered(promptRegistry', branch.prompts[i], s)]_vars

\* C2: a discoverMcpTools call raises only when the ad-hoc command could not
\* be parsed, and then it has started no branch: no error of a branch makes
\* the call raise.
C2_RaisesOnlyOnParseFailure ==
  \A c \in Calls :
    calls[c].pc = "raised" => calls[c].parseThrew /\ BranchesOf(c) = {}

\* C3: every discoverMcpTools call eventually ends, and it ends, returning or
\* raising, with the discovery state Completed.
C3_EventuallyCompleted ==
  /\ \A c \in Calls :
       (calls[c].pc = "awaiting")
         ~> (calls[c].pc \in Ended /\ mcpDiscoveryState = COMPLETED)
  /\ [][\A c \in Calls : Ends(c) => mcpDiscoveryState' = COMPLETED]_vars

\* a call has returned although one of its servers failed to connect, another
\* has raised on its ad-hoc command, and the state is Completed
C3_Witness ==
  /\ mcpDiscoveryState = COMPLETED
  /\ \E c \in Calls :
       /\ calls[c].pc = "returned"
       /\ \E b \in BranchesOf(c) : ~branches[b].connected
  /\ \E c \in Calls : calls[c].pc = "raised" /\ calls[c].parseThrew

Rank(state) ==
  CASE state = NOT_STARTED -> 0
    [] state = IN_PROGRESS -> 1
    [] state = COMPLETED -> 2

\* C4 as stated: the discovery state only ever advances
\* NotStarted -> InProgress -> Completed.
C4_OnlyAdvances ==
  [][Rank(mcpDiscoveryState') >= Rank(mcpDiscoveryState)]_vars

\* C4 as amended: the discovery state never returns to NotStarted; it becomes
\* InProgress only as a call starts (also from Completed) and Completed only
\* as a call ends.
C4_NeverBackToNotStarted ==
  [][/\ mcpDiscoveryState # NOT_STARTED => mcpDiscoveryState' # NOT_STARTED
     /\ mcpDiscoveryState' # mcpDiscoveryState =>
          \/ /\ mcpDiscoveryState' = IN_PROGRESS
             /\ \E c \in Calls : calls[c].pc = "idle" /\ calls'[c].pc = "awaiting"
          \/ /\ mcpDiscoveryState' = COMPLETED
             /\ \E c \in Calls : Ends(c)]_vars

\* a repeated call has put the state back to InProgress after a completed one
C4_Witness ==
  /\ mcpDiscoveryState = IN_PROGRESS
  /\ \E c, d \in Calls : calls[c].pc \in Ended /\ calls[d].pc = "awaiting"

\* C5: when a server's listings yield no enabled tool and no templated prompt,
\* the step that ends its discovery closes its connection and leaves its
\* status Disconnected, and changes no other branch; the other branches then
\* run to completion.
C5_EmptyServerClosedOthersComplete ==
  /\ [][\A b \in BranchIds :
          ( /\ branches[b].pc = "promptsList"
            /\ branches'[b].pc \in Settled
            /\ branches'[b].tools = <<>>
            /\ branches'[b].prompts = <<>> )
          => /\ clients'[b].state = "closed"
             /\ mcpServerStatusesInternal'[b[2]] = {DISCONNECTED}
             /\ \A o \in BranchIds \ {b} :
                  branches'[o] = branches[o] /\ clients'[o] = clients[o]]_vars
  /\ \A b \in BranchIds :
       (branches[b].pc \notin ({"none"} \cup Settled))
         ~> (branches[b].pc \in Settled)

\* a server listed nothing and was closed while a sibling branch of the same
\* call found a tool and was fulfilled
C5_Witness ==
  \E c \in Calls : \E s, o \in calls[c].servers :
    /\ s # o
    /\ branches[<<c, s>>].listed
    /\ branches[<<c, s>>].tools = <<>>
    /\ branches[<<c, s>>].prompts = <<>>
    /\ clients[<<c, s>>].state = "closed"
    /\ branches[<<c, o>>].pc = "fulfilled"
    /\ branches[<<c, o>>].tools # <<>>

\* C6: mcpRequest never raises; for a server name without an entry in
\* mcpClients it returns the 'not found' error and issues no request; a failed
\* request is returned as an error carrying the failure's message; success is
\* returned only for a request that succeeded.
C6_RequestReturnsTaggedResult ==
  /\ [][\A r \in Requests :
          (requests[r].pc \in {"idle", "returned"} /\ requests'[r] # requests[r])
          => IF mcpClients[requests'[r].serverName] = {}
               THEN /\ requests'[r].pc = "returned"
                    /\ ~requests'[r].issued
                    /\ requests'[r].result = NotFound(requests'[r].serverName)
               ELSE /\ requests'[r].pc = "awaiting"
                    /\ requests'[r].issued
                    /\ requests'[r].client = mcpClients[requests'[r].serverName]]_vars
  /\ [](\A r \in Requests :
          /\ requests[r].pc \in {"idle", "awaiting", "returned"}
          /\ (requests[r].pc = "returned" /\ requests[r].issued) =>
               /\ requests[r].outcome # {}
               /\ \A o \in requests[r].outcome :
                    IF o.ok
                      THEN requests[r].result.type = "success"
                      ELSE requests[r].result =
                             [type |-> "error", error |-> <<o.message>>]
          /\ requests[r].result.type = "success" =>
               requests[r].issued /\ \A o \in requests[r].outcome : o.ok)

\* one request came back 'not found', and a failed one came back as an error
\* with its message
C6_Witness ==
  \E r \in Requests :
    /\ requests[r].pc = "returned"
    /\ requests[r].issued
    /\ \E o \in requests[r].outcome : ~o.ok
    /\ requests[r].result.type = "error"
    /\ requests[r].result.error = <<"request failed">>

\* C7: no mcpRequest call issues a request on a connection that
\* connectAndDiscover closed at the end of its discovery (failure or
\* emptiness): such a call returns the 'not found' error.
C7_ClosedConnectionNeverUsed ==
  \A r \in Requests :
    (requests[r].pc # "idle" /\ requests[r].closedAtIssue
       /\ \E b \in requests[r].client : branches[b].listed)
    => ~requests[r].issued /\ requests[r].result = NotFound(requests[r].serverName)

\* C8: at most one un-closed connection exists for each server name.
C8_OneOpenConnectionPerServer ==
  \A s \in Names :
    Cardinality({b \in BranchIds : b[2] = s /\ clients[b].state = "open"}) <= 1

\* C9: two registered tools that come from different (server name, raw tool
\* name) pairs have different registered names.
C9_RegisteredNamesUnique ==
  \A t, u \in toolRegistry :
    (t.serverName # u.serverName \/ t.decl # u.decl) => t.name # u.name

\* C10: when two different servers have each discovered the same raw tool
\* name t, both tools are registered, as A__sanitize(t) and B__sanitize(t),
\* and the two names differ.
C10_SameToolOnTwoServers ==
  \A a, b \in BranchIds :
    (a[2] # b[2] /\ branches[a].pc = "fulfilled" /\ branches[b].pc = "fulfilled")
    => \A i \in 1..Len(branches[a].tools), j \in 1..Len(branches[b].tools) :
         LET t == branches[a].tools[i].decl
             nameA == a[2] \o <<"_", "_">> \o Sanitize(t)
             nameB == b[2] \o <<"_", "_">> \o Sanitize(t)
         IN branches[b].tools[j].decl = t
              => /\ \E x \in toolRegistry : x.serverName = a[2] /\ x.name = nameA
                 /\ \E y \in toolRegistry : y.serverName = b[2] /\ y.name = nameB
                 /\ \A x, y \in toolRegistry :
                      ( /\ x.serverName = a[2] /\ x.decl = t
                        /\ y.serverName = b[2] /\ y.decl = t )
                      => x.name # y.name

\* both servers of one call have registered the raw tool name t
C10_Witness ==
  \E x, y \in toolRegistry :
    x.serverName = SrvA /\ y.serverName = SrvAU /\ x.decl = ToolT /\ y.decl = ToolT

\* C11: isEnabled(decl, config) is true exactly when decl has a name, the name
\* is no exact member of excludeTools, and includeTools is unset or holds an
\* entry equal to the name or an entry that begins with the name followed by
\* '('.  So a name in both lists is disabled, and an includeTools list that is
\* set but empty disables every tool.
C11_EnabledExactlyWhen ==
  \A r \in probe.enabled :
    LET name == probe.funcDecl.name
        cfg == probe.mcpServerConfig
        Listed(opt) ==
          \E list \in opt : \E i \in 1..Len(list) : list[i] = name
        Parametrized(opt) ==
          \E list \in opt : \E i \in 1..Len(list) :
            /\ Len(list[i]) > Len(name)
            /\ \A k \in 1..Len(name) : list[i][k] = name[k]
            /\ list[i][Len(name) + 1] = "("
    IN /\ r <=> /\ Len(name) > 0
                /\ ~Listed(cfg.excludeTools)
                /\ \/ cfg.includeTools = {}
                   \/ Listed(cfg.includeTools)
                   \/ Parametrized(cfg.includeTools)
       /\ (Listed(cfg.excludeTools) /\ Listed(cfg.includeTools)) => ~r
       /\ cfg.includeTools = {<<>>} => ~r

\* isEnabled has refused a tool that is in includeTools and in excludeTools,
\* and the configuration enables another tool by its parametrized entry
C11_Witness ==
  /\ probe.enabled = {FALSE}
  /\ probe.funcDecl.name = NameTX
  /\ probe.mcpServerConfig.excludeTools = {<<NameTX>>}
  /\ probe.mcpServerConfig.includeTools = {<<NameTX, NameTParen>>}
  /\ isEnabled(FuncDecl(NameT), probe.mcpServerConfig)

\* C12: the prompt registry never holds a prompt whose entry in the server's
\* response had no template or an empty one (prompt q, in every response), and
\* every registered prompt carries a template and the name of the server
\* whose branch kept it, under that server's key.
C12_OnlyTemplatedPromptsRegistered ==
  \A key \in DOMAIN promptRegistry :
    LET prompt == promptRegistry[key]
    IN /\ prompt.template # {} /\ \A t \in prompt.template : Len(t) > 0
       /\ prompt.name # PromptQ
       /\ prompt.serverName \in Names
       /\ key = prompt.serverName \o <<"/">> \o prompt.name
       /\ \E b \in BranchIds :
            /\ b[2] = prompt.serverName
            /\ branches[b].path \in {"kept", "emptiness"}
            /\ \E i \in 1..Len(branches[b].prompts) :
                 branches[b].prompts[i].name = prompt.name

\* a server answered prompts/list with p (templated) and q (no template): p is
\* registered under the server's name, q is not
C12_Witness ==
  \E b \in BranchIds :
    /\ branches[b].pc = "fulfilled"
    /\ branches[b].prompts # <<>>
    /\ getPromptKey(b[2], PromptP) \in DOMAIN promptRegistry
    /\ getPromptKey(b[2], PromptQ) \notin DOMAIN promptRegistry

C14_EveryListenerNotifiedInOrder ==
  \A n \in probe.notified :
    ~n.threw => n.invoked = n.registered

\* C15: a discoverMcpTools call given the ad-hoc command 'x y' works on the
\* given servers plus an entry 'mcp' with command x and args (y), whatever
\* entry the given servers had under that name; a call given 'x |', which
\* cannot be tokenized, raises having started no branch: it publishes no
\* status, attempts no connection and registers nothing.
C15_AdHocCommandReplacesOrRaises ==
  [][\A c \in Calls :
       (calls[c].pc = "idle" /\ calls'[c].pc # "idle") =>
         LET given == calls'[c].mcpServers
             cmd == calls'[c].mcpServerCommand
         IN /\ cmd = {<<"x", " ", "y">>} =>
                 /\ calls'[c].pc # "raised" \/ ~calls'[c].parseThrew
                 /\ calls'[c].servers = DOMAIN given \cup {McpName}
                 /\ branches'[<<c, McpName>>].pc # "none"
                 /\ branches'[<<c, McpName>>].config =
                      [EmptyConfig EXCEPT !.command = {<<"x">>},
                                          !.args = << <<"y">> >>]
                 /\ \A s \in DOMAIN given \ {McpName} :
                      branches'[<<c, s>>].config = given[s]
            /\ cmd = {<<"x", " ", "|">>} =>
                 /\ calls'[c].pc = "raised"
                 /\ calls'[c].parseThrew
                 /\ \A s \in Names : branches'[<<c, s>>].pc = "none"
                 /\ UNCHANGED <<mcpServerStatusesInternal, mcpClients, clients,
                                branches, toolRegistry, promptRegistry>>
            /\ cmd = {} =>
                 /\ calls'[c].servers = DOMAIN given
                 /\ \A s \in DOMAIN given :
                      branches'[<<c, s>>].config = given[s]]_vars

\* one call replaced the configured entry 'mcp' by the ad-hoc command's and
\* launched it, another raised on a command that cannot be tokenized
C15_Witness ==
  \E c, d \in Calls :
    /\ McpName \in DOMAIN calls[c].mcpServers
    /\ calls[c].mcpServers[McpName] = SseConfig
    /\ calls[c].mcpServerCommand # {}
    /\ branches[<<c, McpName>>].config.command = {<<"x">>}
    /\ branches[<<c, McpName>>].connected
    /\ clients[<<c, McpName>>].transport = "StdioClientTransport"
    /\ calls[d].pc = "raised"
    /\ calls[d].parseThrew
    /\ calls[d].mcpServers = (SrvA :> StdioConfig)
    /\ mcpServerStatusesInternal[SrvA] = {}

\* C16: the statuses one connectAndDiscover invocation publishes for its
\* server follow Connecting, then Connected or Disconnected, and after
\* Connected only Disconnected; each publication is written to the status
\* registry; and the error handler the invocation installs, which exists only
\* once Connected was published, publishes nothing but Disconnected.
C16_PublishedStatusesFollowStateMachine ==
  [][/\ \A b \in BranchIds :
          branches'[b].published # branches[b].published =>
            /\ \/ /\ branches[b].published = "none"
                  /\ branches'[b].published = CONNECTING
               \/ /\ branches[b].published = CONNECTING
                  /\ branches'[b].published \in {CONNECTED, DISCONNECTED}
               \/ /\ branches[b].published = CONNECTED
                  /\ branches'[b].published = DISCONNECTED
            /\ mcpServerStatusesInternal'[b[2]] = {branches'[b].published}
     /\ \A s \in Names :
          ( /\ mcpServerStatusesInternal'[s] # mcpServerStatusesInternal[s]
            /\ \A c \in Calls :
                 branches'[<<c, s>>].published = branches[<<c, s>>].published )
          => /\ mcpServerStatusesInternal'[s] = {DISCONNECTED}
             /\ \E c \in Calls :
                  /\ clients[<<c, s>>].onerror
                  /\ branches[<<c, s>>].connected
                  /\ branches[<<c, s>>].published \in {CONNECTED, DISCONNECTED}]_vars

\* one invocation went Connecting, Connected, Disconnected (its discovery
\* found nothing), another went Connecting, Disconnected (its connect failed)
C16_Witness ==
  \E a, b \in BranchIds :
    /\ branches[a].connected
    /\ branches[a].path = "catchInner"
    /\ branches[a].published = DISCONNECTED
    /\ ~branches[b].connected
    /\ branches[b].path = "catchOuter"
    /\ branches[b].published = DISCONNECTED

\* C17: the discovery state is never Completed while a connectAndDiscover
\* invocation, launched by any discoverMcpTools call, is still running: while
\* no status listener throws, whenever the state is Completed every branch
\* launched so far has finished.
C17_CompletedOnlyWhenAllBranchesFinished ==
  ( /\ mcpDiscoveryState = COMPLETED
    /\ ~NotifyThrows(statusChangeListeners)
    /\ \A c \in Calls : calls[c].pc # "raised" )
  => \A b \in Launched : branches[b].pc \in Settled

\* the listings of branch b are over and left no tool and no prompt
NothingDiscovered(b) ==
  /\ branches[b].listed
  /\ branches[b].tools = <<>>
  /\ branches[b].prompts = <<>>

\* C18 as stated: a server whose two listing requests succeeded but yielded
\* nothing is handled by the emptiness path (discovery returns an empty
\* result, lines 259-263), one whose listing requests failed by the
\* discovery-failure path (discovery raises, lines 264-270).
C18_PathsByCause ==
  \A b \in BranchIds :
    NothingDiscovered(b) =>
      IF ~branches[b].toolsFailed /\ ~branches[b].promptsFailed
        THEN branches[b].path = "emptiness"
        ELSE branches[b].path = "catchInner"

\* C18 as amended: whenever the listings leave no tool and no prompt, whether
\* the requests failed or succeeded with nothing usable, discovery raises and
\* the discovery-failure path closes the connection and publishes
\* Disconnected; the emptiness path is never taken.
C18_NothingDiscoveredAlwaysRaises ==
  \A b \in BranchIds :
    /\ branches[b].path # "emptiness"
    /\ NothingDiscovered(b) =>
         /\ branches[b].path = "catchInner"
         /\ clients[b].state = "closed"
         /\ branches[b].published = DISCONNECTED
    /\ branches[b].path = "catchInner" => NothingDiscovered(b)

\* one server's listing requests both succeeded with nothing usable, another's
\* both failed, and both were handled by the discovery-failure path
C18_Witness ==
  \E a, b \in BranchIds :
    /\ NothingDiscovered(a)
    /\ ~branches[a].toolsFailed /\ ~branches[a].promptsFailed
    /\ branches[a].path = "catchInner"
    /\ NothingDiscovered(b)
    /\ branches[b].toolsFailed /\ branches[b].promptsFailed
    /\ branches[b].path = "catchInner"

\* the prompts/list request of branch b settles in this step, which ends
\* discoverToolsAndPrompts
DiscoveryEnds(b) ==
  branches[b].pc = "promptsList" /\ branches'[b].pc # "promptsList"

RequestCalled(r) ==
  /\ requests[r].pc \in {"idle", "returned"}
  /\ requests'[r] # requests[r]

\* C21: a connection handle is reachable by mcpRequest only once its
\* server's discovery has finished: a request made while the tools or
\* prompts listing of the connection is still in flight is not issued on it
\* and returns the "not found" error.
C21_HandleUnavailableUntilDiscoveryFinishes ==
  [][\A r \in Requests :
       RequestCalled(r)
       => \A c \in Calls :
            LET b == <<c, requests'[r].serverName>>
            IN branches[b].pc \in {"toolsList", "promptsList"}
               => /\ b \notin requests'[r].client
                  /\ (mcpClients[b[2]] \subseteq {b}
                      => /\ ~requests'[r].issued
                         /\ requests'[r].result = NotFound(b[2]))]_vars

\* an invocation that has not settled yet
Running == {"connecting", "toolsList", "promptsList"}

\* the next step of one connectAndDiscover invocation
BranchStep(c, s) ==
  \/ \E ok \in BOOLEAN : ConnectSettles(c, s, ok)
  \/ \E resp \in {{}} \cup {{r} : r \in ToolsResponses} :
       ToolsListSettles(c, s, resp)
  \/ \E resp \in {{}} \cup {{r} : r \in PromptsResponses} :
       PromptsListSettles(c, s, resp)

\* C22: within one server's branch tools/list is issued only when the connect
\* succeeded, prompts/list only when tools/list has settled, and discovery
\* ends only when prompts/list has settled, so the two requests are never in
\* flight together; across the servers of one call no order is imposed:
\* whenever two of them are still running, either one can take the next step.
C22_ToolsThenPromptsAfterConnect ==
  /\ [][\A b \in BranchIds :
          /\ (branches'[b].pc = "toolsList" /\ branches[b].pc # "toolsList")
             => /\ branches[b].pc = "connecting"
                /\ branches'[b].connected
                /\ clients'[b].state = "open"
          /\ (branches'[b].pc = "promptsList" /\ branches[b].pc # "promptsList")
             => /\ branches[b].pc = "toolsList"
                /\ branches[b].connected
          /\ (branches'[b].listed /\ ~branches[b].listed)
             => branches[b].pc = "promptsList"]_vars
  /\ [](\A c \in Calls, s1, s2 \in Names :
          (/\ s1 # s2
           /\ branches[<<c, s1>>].pc \in Running
           /\ branches[<<c, s2>>].pc \in Running)
          => ENABLED BranchStep(c, s1) /\ ENABLED BranchStep(c, s2))

\* one server of a call has had its tools listed and awaits its prompts
\* while its sibling, launched first, is still connecting
C22_Witness ==
  \E c \in Calls :
    /\ branches[<<c, SrvAU>>].pc = "promptsList"
    /\ branches[<<c, SrvAU>>].connected
    /\ branches[<<c, SrvAU>>].tools # <<>>
    /\ branches[<<c, SrvA>>].pc = "connecting"

\* a step in which the connect of invocation b fails
ConnectFails(b) ==
  /\ branches[b].pc = "connecting"
  /\ branches'[b].pc # "connecting"
  /\ ~branches'[b].connected

\* C23: when connecting a server fails, the transport that was constructed,
\* if any, is closed, Disconnected is published for the server, no error
\* handler is installed, no listing request is issued, and nothing is added
\* for the server to the connection map or to the tool and prompt registries.
C23_FailedConnectLeavesNothing ==
  [][\A b \in BranchIds :
       ConnectFails(b)
       => /\ IF createTransport(branches[b].config).threw
               THEN clients'[b].transport = "none"
               ELSE /\ clients'[b].transport # "none"
                    /\ clients'[b].state = "closed"
          /\ mcpServerStatusesInternal'[b[2]] = {DISCONNECTED}
          /\ branches'[b].published = DISCONNECTED
          /\ ~clients'[b].onerror
          /\ branches'[b].pc \in Settled
          /\ ~branches'[b].listed
          /\ mcpClients' = mcpClients
          /\ toolRegistry' = toolRegistry
          /\ promptRegistry' = promptRegistry]_vars

\* one server's configuration names no transport and another's connect was
\* rejected: the first never had a transport, the second's is closed, both
\* are Disconnected and neither is in the connection map
C23_Witness ==
  \E a, b \in BranchIds :
    /\ a[1] = b[1]
    /\ branches[a].pc = "fulfilled" /\ ~branches[a].connected
    /\ clients[a].transport = "none"
    /\ branches[b].pc = "fulfilled" /\ ~branches[b].connected
    /\ clients[b].transport # "none" /\ clients[b].state = "closed"
    /\ mcpServerStatusesInternal[a[2]] = {DISCONNECTED}
    /\ mcpServerStatusesInternal[b[2]] = {DISCONNECTED}
    /\ mcpClients[a[2]] = {} /\ mcpClients[b[2]] = {}
    /\ toolRegistry = {} /\ promptRegistry = <<>>

\* a step in which the error handler of a connection of server s runs: the
\* status of s is rewritten, or the active-file context dropped, while no
\* invocation, call, listener or request moves
ErrorEvent(s) ==
  /\ branches' = branches
  /\ calls' = calls
  /\ statusChangeListeners' = statusChangeListeners
  /\ requests' = requests
  /\ probe' = probe
  /\ \/ mcpServerStatusesInternal'[s] # mcpServerStatusesInternal[s]
     \/ /\ mcpServerStatusesInternal' = mcpServerStatusesInternal
        /\ s = IDE_SERVER_NAME
        /\ activeFileContext # {} /\ activeFileContext' = {}

\* C24: after a server has connected, every transport error event on its
\* connection publishes Disconnected for that server, and the active-file
\* context is cleared if and only if that server is the IDE server.
C24_ErrorDisconnectsAndClearsOnlyForIde ==
  [][\A s \in Names :
       ErrorEvent(s)
       => /\ mcpServerStatusesInternal'[s] = {DISCONNECTED}
          /\ IF s = IDE_SERVER_NAME
               THEN activeFileContext' = {}
               ELSE activeFileContext' = activeFileContext]_vars

\* what the process holds under the key of server s: its status, its entry in
\* the connection map, and the tools and prompts registered for it
KeysOf(s, statuses, connections, tools, prompts) ==
  [status |-> statuses[s],
   client |-> connections[s],
   tools |-> {t \in tools : t.serverName = s},
   prompts |-> {prompts[k] : k \in {j \in DOMAIN prompts :
                                       prompts[j].serverName = s}}]

C26_ConnectedHasOpenEntry ==
  \A s \in Names :
    mcpServerStatusesInternal[s] = {CONNECTED}
    => /\ mcpClients[s] # {}
       /\ \A b \in mcpClients[s] : clients[b].state = "open"

\* two invocations for one server have both connected: the first one's
\* connection is closed, the second one's replaced it in the connection map
\* and is open, and the server is Connected
C26_Witness ==
  \E a, b \in BranchIds :
    /\ a # b /\ a[2] = b[2]
    /\ branches[a].connected /\ branches[b].connected
    /\ clients[a].state = "closed"
    /\ mcpServerStatusesInternal[a[2]] = {CONNECTED}
    /\ mcpClients[a[2]] = {b}
    /\ clients[b].state = "open"

\* C27: a transport error event on a connected server changes only that
\* server's status (and, for the IDE server, the active-file context): the
\* connection is not closed, the connection-map entry stays, and no
\* registered tool or prompt is removed; a request for a server whose stored
\* connection is open is issued on that connection whatever the status is.
C27_ErrorChangesOnlyStatus ==
  /\ [][\A s \in Names :
          ErrorEvent(s)
          => /\ clients' = clients
             /\ mcpClients' = mcpClients
             /\ toolRegistry' = toolRegistry
             /\ promptRegistry' = promptRegistry
             /\ mcpDiscoveryState' = mcpDiscoveryState
             /\ \A n \in Names \ {s} :
                  mcpServerStatusesInternal'[n] = mcpServerStatusesInternal[n]
             /\ (s # IDE_SERVER_NAME => activeFileContext' = activeFileContext)]_vars
  /\ [][\A r \in Requests :
          LET s == requests'[r].serverName
          IN (/\ RequestCalled(r)
              /\ mcpClients[s] # {}
              /\ \A b \in mcpClients[s] : clients[b].state = "open")
             => /\ requests'[r].issued
                /\ requests'[r].client = mcpClients[s]
                /\ ~requests'[r].closedAtIssue]_vars

\* after a transport error the server is Disconnected while its connection
\* is stored and open, its tools are still registered, and a request for it
\* can be issued on that connection
C27_Witness ==
  \E b \in BranchIds :
    /\ branches[b].path = "kept"
    /\ branches[b].published = CONNECTED
    /\ mcpServerStatusesInternal[b[2]] = {DISCONNECTED}
    /\ mcpClients[b[2]] = {b}
    /\ clients[b].state = "open"
    /\ branches[b].tools # <<>>
    /\ Elems(branches[b].tools) \subseteq toolRegistry
    /\ \E r \in Requests :
         ENABLED (McpRequestCall(r, b[2]) /\ requests'[r].issued)

\* C28: when a discoverMcpTools call that no other call overlaps returns
\* normally, no server of its working set is Connecting: each is Connected
\* or Disconnected, and one that is Connected had a tool or a prompt
\* registered during the pass.
C28_AfterSinglePassNoneConnecting ==
  [][\A c \in Calls :
       (/\ Ends(c)
        /\ calls'[c].pc = "returned"
        /\ \A d \in Calls \ {c} : calls[d].pc = "idle")
       => \A s \in calls'[c].servers :
            LET k == KeysOf(s, mcpServerStatusesInternal', mcpClients',
                            toolRegistry', promptRegistry')
            IN /\ k.status \in {{CONNECTED}, {DISCONNECTED}}
               /\ k.status = {CONNECTED} => (k.tools # {} \/ k.prompts # {})]_vars

\* a single call has returned with one of its servers Connected, its tools
\* registered, and the other Disconnected with nothing registered
C28_Witness ==
  /\ calls[1].pc = "returned"
  /\ calls[2].pc = "idle"
  /\ \E s, n \in calls[1].servers :
       LET ks == KeysOf(s, mcpServerStatusesInternal, mcpClients,
                        toolRegistry, promptRegistry)
           kn == KeysOf(n, mcpServerStatusesInternal, mcpClients,
                        toolRegistry, promptRegistry)
       IN /\ ks.status = {CONNECTED} /\ ks.tools # {}
          /\ kn.status = {DISCONNECTED} /\ kn.tools = {} /\ kn.prompts = {}

====
